---- MODULE Spec2Model ----
(***************************************************************************)
(* PathCanary partner kit: the reference custom feature-flag provider      *)
(* (examples/custom-provider server, src/unnamed/part_002) and the partner *)
(* SDK client (src/sdk/client.ts).                                         *)
(*                                                                         *)
(* Spec        the provider: one action per inbound HTTP request           *)
(* ClientSpec  the SDK's testToggleFlagWithRetry loop                      *)
(***************************************************************************)
EXTENDS Integers, Sequences, FiniteSets, TLC

(***************************************************************************)
(* JavaScript values.  Every value is a record of the same shape so that   *)
(* any two can be compared: t is the typeof-like tag, b the boolean        *)
(* payload, s the string payload (for a number, its decimal text; for an   *)
(* object or function, the name of the heap object it refers to).          *)
(***************************************************************************)
Undefined == [t |-> "undefined", b |-> FALSE, s |-> ""]

Null == [t |-> "null", b |-> FALSE, s |-> ""]

Bool(x) == [t |-> "boolean", b |-> x, s |-> ""]

Str(x) == [t |-> "string", b |-> FALSE, s |-> x]

Num(x) == [t |-> "number", b |-> FALSE, s |-> x]

ObjRef(x) == [t |-> "object", b |-> FALSE, s |-> x]

FunRef(x) == [t |-> "function", b |-> FALSE, s |-> x]

\* The two built-in objects every object literal inherits from.
ObjectFunction == FunRef("Object")

ObjectPrototype == ObjRef("Object.prototype")

\* JavaScript's ToBoolean, as used by `!x` and `x || y`.
Truthy(v) ==
    CASE v.t = "undefined" -> FALSE
      [] v.t = "null" -> FALSE
      [] v.t = "boolean" -> v.b
      [] v.t = "string" -> v.s # ""
      [] v.t = "number" -> v.s \notin {"0", "NaN"}
      [] OTHER -> TRUE

\* JavaScript's `a || b`.
OrElse(a, b) == IF Truthy(a) THEN a ELSE b

\* JavaScript's ToString as applied by a template literal or a property key.
ToStr(v) ==
    CASE v.t = "undefined" -> "undefined"
      [] v.t = "null" -> "null"
      [] v.t = "boolean" -> (IF v.b THEN "true" ELSE "false")
      [] v = ObjectFunction -> "function Object() { [native code] }"
      [] v.t = "object" -> "[object Object]"
      [] OTHER -> v.s

(***************************************************************************)
(* Strings that the code slices are sequences of one-character strings.    *)
(***************************************************************************)
Min(a, b) == IF a <= b THEN a ELSE b

\* String.prototype.startsWith
StartsWith(str, prefix) ==
    /\ Len(str) >= Len(prefix)
    /\ SubSeq(str, 1, Len(prefix)) = prefix

\* String.prototype.substring(from), 0-based
SubstringFrom(str, from) == SubSeq(str, from + 1, Len(str))

\* String.prototype.substring(from, to), 0-based, to exclusive
Substring(str, from, to) == SubSeq(str, from + 1, Min(to, Len(str)))

BearerPrefix == <<"B", "e", "a", "r", "e", "r", " ">>

TestKey ==
    <<"t", "e", "s", "t", "_", "s", "k", "_", "a", "b",
      "c", "1", "2", "3", "d", "e", "f", "4", "5", "6">>

ProdKey ==
    <<"p", "r", "o", "d", "_", "s", "k", "_", "x", "y",
      "z", "7", "8", "9", "g", "h", "i", "0", "1", "2">>

InvalidKey ==
    <<"i", "n", "v", "a", "l", "i", "d", "_", "k", "e", "y", "_", "1", "2", "3">>

\* An unknown key of fewer than ten characters.
ShortKey == <<"a", "b", "c", "1", "2", "3">>

ConstructorChars == <<"c", "o", "n", "s", "t", "r", "u", "c", "t", "o", "r">>

ProtoChars == <<"_", "_", "p", "r", "o", "t", "o", "_", "_">>

BasicHeader == <<"B", "a", "s", "i", "c", " ", "a", "b", "c">>

(***************************************************************************)
(* database (part_002:22-66)                                               *)
(***************************************************************************)
\* The string a sequence of characters spells.
RECURSIVE Join(_)
Join(chars) == IF chars = <<>> THEN "" ELSE Head(chars) \o Join(Tail(chars))

\* database.apiKeys: own properties, key -> customer id
apiKeys ==
    ("test_sk_abc123def456" :> Str("customer_001"))
    @@ ("prod_sk_xyz789ghi012" :> Str("customer_002"))

\* The heap objects that hold flag-like properties: the three seeded flag
\* records and the two built-ins reachable through the prototype chain.
FlagObjects == {"flag_001", "flag_002", "flag_003"}

HeapObjects == FlagObjects \cup {"Object", "Object.prototype"}

\* An object without any of the flag properties.
NoProps ==
    [id |-> Undefined, key |-> Undefined, enabled |-> Undefined,
     environment |-> Undefined, updated_at |-> Undefined,
     updated_by |-> Undefined, update_reason |-> Undefined]

SeedFlag(id, key, enabled, updated_at) ==
    [id |-> Str(id), key |-> Str(key), enabled |-> Bool(enabled),
     environment |-> Str("production"), updated_at |-> Str(updated_at),
     updated_by |-> Undefined, update_reason |-> Undefined]

InitialHeap ==
    [o \in HeapObjects |->
        CASE o = "flag_001" ->
                SeedFlag("flag_001", "new-checkout-flow", TRUE, "2025-01-15T10:00:00Z")
          [] o = "flag_002" ->
                SeedFlag("flag_002", "beta-search", TRUE, "2025-02-01T12:00:00Z")
          [] o = "flag_003" ->
                SeedFlag("flag_003", "mobile-app-redesign", FALSE, "2025-03-10T08:00:00Z")
          [] OTHER -> NoProps]

\* database.featureFlags: customer id -> (own flag key -> the object it holds)
InitialFeatureFlags ==
    ("customer_001" :> (("new-checkout-flow" :> ObjRef("flag_001"))
                        @@ ("beta-search" :> ObjRef("flag_002"))))
    @@ ("customer_002" :> ("mobile-app-redesign" :> ObjRef("flag_003")))

(***************************************************************************)
(* Property access.  database.apiKeys, database.featureFlags[c], the       *)
(* parsed request body and the flag records are ordinary objects: a read   *)
(* of a name that is not an own property continues along the prototype     *)
(* chain to Object.prototype.                                              *)
(***************************************************************************)
\* What Object.prototype yields for `name`: its accessor __proto__, its
\* member constructor, and whatever has been assigned to it.
InheritedProperty(h, name) ==
    CASE name = "constructor" -> ObjectFunction
      [] name = "__proto__" -> ObjectPrototype
      [] name \in DOMAIN NoProps -> h["Object.prototype"][name]
      [] OTHER -> Undefined

\* obj[name] for a dictionary object whose own properties are `own`
Lookup(h, own, name) ==
    IF name \in DOMAIN own THEN own[name] ELSE InheritedProperty(h, name)


\* A read that sees the object as it was when the provider started.
GetPropAtStartup(h, obj, name) ==
    IF InitialHeap[obj][name] # Undefined \/ obj = "Object.prototype"
    THEN InitialHeap[obj][name]
    ELSE InheritedProperty(InitialHeap, name)

\* obj.name where obj is one of the heap objects
GetProp(h, obj, name) ==
    IF h[obj][name] # Undefined \/ obj = "Object.prototype"
    THEN h[obj][name]
    ELSE InheritedProperty(h, name)

\* JSON.stringify leaves out properties whose value is undefined or a function
ToJson(v) == IF v.t \in {"undefined", "function"} THEN Undefined ELSE v

(***************************************************************************)
(* logAuditEvent and generateRequestId (part_002:344-365)                  *)
(***************************************************************************)
AuditLogCapacity == 1000

\* new Date().toISOString() at logical time `now`
Timestamp(now) == Str("T" \o ToString(now))

AuditEvent(action) ==
    [action |-> action, timestamp |-> Undefined, customer_id |-> Undefined,
     flag_key |-> Undefined, flag_id |-> Undefined, previous_state |-> Undefined,
     new_state |-> Undefined, incident_id |-> Undefined, request_id |-> Undefined,
     api_key |-> <<>>, error |-> Undefined]

\* A log that is never trimmed.
logAuditEventUnbounded(log, event, now) ==
    Append(log, [event EXCEPT !.timestamp = Timestamp(now)])

logAuditEvent(log, event, now) ==
    LET logEntry == [event EXCEPT !.timestamp = Timestamp(now)]
        pushed == Append(log, logEntry)
    IN  IF Len(pushed) > AuditLogCapacity
        THEN SubSeq(pushed, Len(pushed) - AuditLogCapacity + 1, Len(pushed))
        ELSE pushed

generateRequestId(now, hex) == Str("req_" \o ToString(now) \o "_" \o hex)

(***************************************************************************)
(* Requests and responses                                                  *)
(***************************************************************************)
\* metadata of a request body: absent, null, or a map with its environment
MetadataAbsent == [t |-> "undefined", environment |-> Undefined]

MetadataNull == [t |-> "null", environment |-> Undefined]

MetadataMap(environment) == [t |-> "object", environment |-> environment]

NoProviderMetadata ==
    [present |-> FALSE, flag_id |-> Undefined, customer_id |-> Undefined,
     environment |-> Undefined, updated_at |-> Undefined, request_id |-> Undefined]

\* res.status(status).json({...}): the body as the caller parses it
Response(status, success, flag_key, previous_state, new_state, error, pm) ==
    [status |-> status,
     success |-> ToJson(success),
     flag_key |-> ToJson(flag_key),
     previous_state |-> ToJson(previous_state),
     new_state |-> ToJson(new_state),
     error |-> ToJson(error),
     request_id |-> Undefined,
     provider_metadata |->
        [present |-> pm.present, flag_id |-> ToJson(pm.flag_id),
         customer_id |-> ToJson(pm.customer_id),
         environment |-> ToJson(pm.environment),
         updated_at |-> ToJson(pm.updated_at),
         request_id |-> ToJson(pm.request_id)]]

\* What one request leaves behind: the response and the database after it.
Outcome(res, h, flags, log) ==
    [res |-> res, heap |-> h, featureFlags |-> flags, auditLog |-> log]

(***************************************************************************)
(* validateApiKey (part_002:71-105)                                        *)
(***************************************************************************)
\* The customer the header authenticates, or Undefined.
AuthenticatedCustomer(h, authHeader) ==
    IF authHeader = <<>> \/ ~StartsWith(authHeader, BearerPrefix)
    THEN Undefined
    ELSE LET customerId == Lookup(h, apiKeys, Join(SubstringFrom(authHeader, 7)))
         IN  IF Truthy(customerId) THEN customerId ELSE Undefined

\* A gate that rejects without saying why.
validateApiKeyWithoutError(h, flags, log, authHeader, now) ==
    Outcome(
        Response(401, Bool(FALSE), Undefined, Undefined, Undefined, Undefined,
                 NoProviderMetadata),
        h, flags, log)

\* The 401 answers; a request that passes has AuthenticatedCustomer # Undefined.
validateApiKey(h, flags, log, authHeader, now) ==
    IF authHeader = <<>> \/ ~StartsWith(authHeader, BearerPrefix)
    THEN Outcome(
            Response(401, Bool(FALSE), Undefined, Undefined, Undefined,
                     Str("Missing or invalid Authorization header. Expected format: Bearer YOUR_API_KEY"),
                     NoProviderMetadata),
            h, flags, log)
    ELSE LET apiKey == SubstringFrom(authHeader, 7)
         IN  Outcome(
                Response(401, Bool(FALSE), Undefined, Undefined, Undefined,
                         Str("Invalid API key"), NoProviderMetadata),
                h, flags,
                logAuditEvent(log,
                    [AuditEvent("AUTH_FAILED") EXCEPT
                        !.api_key = Substring(apiKey, 0, 10) \o <<".", ".", ".">>],
                    now))

(***************************************************************************)
(* logRequest (part_002:110-120)                                           *)
(***************************************************************************)

\* A middleware that names the request itself, whatever the header says.
logRequestIgnoringHeader(requestIdHeader, now, hex) == generateRequestId(now, hex)

logRequest(requestIdHeader, now, hex) ==
    OrElse(requestIdHeader, generateRequestId(now, hex))

(***************************************************************************)
(* app.post('/webhook/pathcanary', validateApiKey, logRequest, handler)    *)
(* (part_002:129-282): the handler proper, run for an authenticated        *)
(* request.                                                                *)
(***************************************************************************)
\* `const { name } = req.body`, `req.body.name`: own property or inherited
Field(h, body, name) ==
    IF body[name] # Undefined THEN body[name] ELSE InheritedProperty(h, name)

\* The 400 answers of lines 143-182, in the order the code tests them;
\* Undefined when the request passes validation.
ValidationError(flag_key, enabled, incident_id, incident_message, source) ==
    IF ~Truthy(flag_key)
    THEN Str("Missing required field: flag_key")
    ELSE IF enabled.t # "boolean"
    THEN Str("Missing or invalid required field: enabled (must be boolean)")
    ELSE IF ~Truthy(incident_id) \/ ~Truthy(incident_message)
    THEN Str("Missing required fields: incident_id, incident_message")
    ELSE IF source # Str("pathcanary")
    THEN Str("Invalid source. Expected \"pathcanary\"")
    ELSE Undefined

\* The catch block of lines 256-281.
CatchBlock(h, flags, log, customer, requestId, body, message, now) ==
    Outcome(
        Response(500, Bool(FALSE), OrElse(Field(h, body, "flag_key"), Str("")),
                 Bool(FALSE), Bool(FALSE),
                 Str("Internal server error. Please contact support."),
                 [NoProviderMetadata EXCEPT !.present = TRUE, !.request_id = requestId]),
        h, flags,
        logAuditEvent(log,
            [AuditEvent("WEBHOOK_ERROR") EXCEPT
                !.customer_id = customer, !.error = Str(message),
                !.request_id = requestId],
            now))

\* A not-found answer that leaves the flag key out.
FlagNotFoundUnnamed(h, flags, log, customer, requestId, body, flag_key, incident_id, metadata, now) ==
    Outcome(
        Response(200, Bool(FALSE), Str(""), Bool(FALSE), Bool(FALSE),
                 Str("Feature flag '" \o ToStr(flag_key)
                     \o "' not found for customer " \o ToStr(customer)),
                 [NoProviderMetadata EXCEPT
                    !.present = TRUE, !.customer_id = customer,
                    !.environment = Str("production")]),
        h, flags,
        logAuditEvent(log,
            [AuditEvent("FLAG_NOT_FOUND") EXCEPT
                !.customer_id = customer, !.flag_key = flag_key,
                !.incident_id = incident_id, !.request_id = requestId],
            now))

\* Lines 184-209: the flag is not there.
FlagNotFound(h, flags, log, customer, requestId, body, flag_key, incident_id, metadata, now) ==
    LET logged ==
            logAuditEvent(log,
                [AuditEvent("FLAG_NOT_FOUND") EXCEPT
                    !.customer_id = customer, !.flag_key = flag_key,
                    !.incident_id = incident_id, !.request_id = requestId],
                now)
        environment ==
            IF metadata.environment # Undefined
            THEN metadata.environment
            ELSE InheritedProperty(h, "environment")
    IN  IF metadata.t = "null"
        THEN \* metadata.environment throws a TypeError after the audit entry
             CatchBlock(h, flags, logged, customer, requestId, body,
                        "Cannot read properties of null (reading 'environment')", now)
        ELSE Outcome(
                Response(200, Bool(FALSE), flag_key, Bool(FALSE), Bool(FALSE),
                         Str("Feature flag '" \o ToStr(flag_key)
                             \o "' not found for customer " \o ToStr(customer)),
                         [NoProviderMetadata EXCEPT
                            !.present = TRUE, !.customer_id = customer,
                            !.environment = OrElse(environment, Str("production"))]),
                h, flags, logged)

\* A write that flips the stored state instead of setting it.
WriteFlagInverting(h, obj, enabled, incident_id, incident_message, now) ==
    [h EXCEPT ![obj] =
        [@ EXCEPT !.enabled = Bool(~h[obj].enabled.b),
                  !.updated_at = Timestamp(now),
                  !.updated_by = Str("pathcanary"),
                  !.update_reason =
                      Str("Incident " \o ToStr(incident_id) \o ": "
                          \o ToStr(incident_message))]]

\* Lines 211-218: the assignments to the flag object.
WriteFlag(h, obj, enabled, incident_id, incident_message, now) ==
    [h EXCEPT ![obj] =
        [@ EXCEPT !.enabled = enabled,
                  !.updated_at = Timestamp(now),
                  !.updated_by = Str("pathcanary"),
                  !.update_reason =
                      Str("Incident " \o ToStr(incident_id) \o ": "
                          \o ToStr(incident_message))]]

\* Line 221: customerFlags[flag_key] = flag.  Assigning __proto__ sets the
\* prototype (to the object it already is); any other name becomes an own
\* property.  A customerFlags that is the `|| {}` fallback is dropped.
SaveFlag(flags, c, name, flag) ==
    IF c \in DOMAIN flags /\ name # "__proto__"
    THEN [flags EXCEPT ![c] = (name :> flag) @@ @]
    ELSE flags

\* A toggle that reads previous_state back after the write.
ToggleFlagReadingBack(h, flags, log, customer, requestId, flag, flag_key, enabled, incident_id, incident_message, now) ==
    LET obj == flag.s
        h2 == WriteFlag(h, obj, enabled, incident_id, incident_message, now)
        previousState == GetProp(h2, obj, "enabled")
    IN  Outcome(
            Response(200, Bool(TRUE), flag_key, previousState, enabled, Undefined,
                     [NoProviderMetadata EXCEPT
                        !.present = TRUE,
                        !.flag_id = GetProp(h2, obj, "id"),
                        !.customer_id = customer,
                        !.environment = GetProp(h2, obj, "environment"),
                        !.updated_at = GetProp(h2, obj, "updated_at")]),
            h2,
            SaveFlag(flags, ToStr(customer), ToStr(flag_key), flag),
            logAuditEvent(log,
                [AuditEvent("FLAG_TOGGLED") EXCEPT
                    !.customer_id = customer, !.flag_key = flag_key,
                    !.flag_id = GetProp(h2, obj, "id"),
                    !.previous_state = previousState, !.new_state = enabled,
                    !.incident_id = incident_id, !.request_id = requestId],
                now))

\* Lines 211-252: the toggle.
ToggleFlag(h, flags, log, customer, requestId, flag, flag_key, enabled, incident_id, incident_message, now) ==
    LET obj == flag.s
        previousState == GetProp(h, obj, "enabled")
        h2 == WriteFlag(h, obj, enabled, incident_id, incident_message, now)
    IN  Outcome(
            Response(200, Bool(TRUE), flag_key, previousState, enabled, Undefined,
                     [NoProviderMetadata EXCEPT
                        !.present = TRUE,
                        !.flag_id = GetProp(h2, obj, "id"),
                        !.customer_id = customer,
                        !.environment = GetProp(h2, obj, "environment"),
                        !.updated_at = GetProp(h2, obj, "updated_at")]),
            h2,
            SaveFlag(flags, ToStr(customer), ToStr(flag_key), flag),
            logAuditEvent(log,
                [AuditEvent("FLAG_TOGGLED") EXCEPT
                    !.customer_id = customer, !.flag_key = flag_key,
                    !.flag_id = GetProp(h2, obj, "id"),
                    !.previous_state = previousState, !.new_state = enabled,
                    !.incident_id = incident_id, !.request_id = requestId],
                now))

\* The handler of lines 129-282.
WebhookHandler(h, flags, log, customer, requestId, body, now) ==
    LET flag_key == Field(h, body, "flag_key")
        enabled == Field(h, body, "enabled")
        incident_id == Field(h, body, "incident_id")
        incident_message == Field(h, body, "incident_message")
        source == Field(h, body, "source")
        metadata ==
            IF body.metadata.t = "undefined" THEN MetadataMap(Undefined)
            ELSE body.metadata
        invalid ==
            ValidationError(flag_key, enabled, incident_id, incident_message, source)
        c == ToStr(customer)
        customerFlags ==
            IF c \in DOMAIN flags THEN flags[c] ELSE [k \in {} |-> Undefined]
        flag == Lookup(h, customerFlags, ToStr(flag_key))
    IN  IF invalid # Undefined
        THEN Outcome(
                Response(400, Bool(FALSE),
                         IF Truthy(flag_key) THEN flag_key ELSE Str(""),
                         Bool(FALSE), Bool(FALSE), invalid, NoProviderMetadata),
                h, flags, log)
        ELSE IF ~Truthy(flag)
        THEN FlagNotFound(h, flags, log, customer, requestId, body, flag_key,
                          incident_id, metadata, now)
        ELSE ToggleFlag(h, flags, log, customer, requestId, flag, flag_key,
                        enabled, incident_id, incident_message, now)

\* The whole route: validateApiKey, then logRequest, then the handler.
PostWebhook(h, flags, log, r, now, hex) ==
    LET customer == AuthenticatedCustomer(h, r.authorization)
    IN  IF customer = Undefined
        THEN validateApiKey(h, flags, log, r.authorization, now)
        ELSE WebhookHandler(h, flags, log, customer,
                            logRequest(r.request_id, now, hex), r.body, now)

\* Lines 19 and 370-378: bodyParser.json() fails on a body that is not JSON
\* and passes the error to the error handler, before any route middleware.
ErrorHandler(h, flags, log) ==
    Outcome(
        [Response(500, Bool(FALSE), Undefined, Undefined, Undefined,
                  Str("Internal server error"), NoProviderMetadata)
            EXCEPT !.request_id = Undefined],
        h, flags, log)

(***************************************************************************)
(* The provider as a state machine                                         *)
(***************************************************************************)
VARIABLES
    heap,          \* own properties of the flag records, Object and Object.prototype
    featureFlags,  \* database.featureFlags
    auditLog,      \* database.auditLog
    clock,         \* requests handled so far; request n is handled at time n
    req,           \* the request handled last
    res,           \* the response sent for it
    prev,          \* the database as it was before that request
    listing        \* the last GET /audit-log request and its answer

providerVars == <<heap, featureFlags, auditLog, clock, req, res, prev, listing>>

(***************************************************************************)
(* The SDK client as a state machine: one call of testToggleFlagWithRetry  *)
(***************************************************************************)
VARIABLES
    config,     \* this.config of the PathCanaryPartnerClient
    pc,         \* "idle" | "attempt" | "backoff" | "returned" | "thrown"
    attempt,    \* the loop variable of testToggleFlagWithRetry
    lastError,  \* its lastError: Null, or the message of the error caught last
    delay,      \* the backoff the loop is waiting out
    exchanges,  \* what each request sent so far met
    sleeps,     \* the backoff delays waited out so far
    outcome,    \* how the call settled
    call        \* one call of testToggleFlag as it proceeds in time

clientVars ==
    <<config, pc, attempt, lastError, delay, exchanges, sleeps, outcome, call>>

(***************************************************************************)
(* Between the callers and the provider                                    *)
(***************************************************************************)
VARIABLES
    view,    \* the last GET /flags or GET /flags/:flagKey request and its answer
    wire,    \* webhook requests sent and not yet handled
    served,  \* webhook requests handled, in the order the provider ran them
    sent,    \* every attempt sent so far: who sent it, when, and its id
    suite    \* one run of runIntegrationTest

netVars == <<view, wire, served, sent, suite>>

vars == <<providerVars, clientVars, netVars>>

\* No GET /flags has been answered yet.
NoView ==
    [kind |-> "none", authorization |-> <<>>, flagKey |-> "", at |-> 0,
     status |-> 0, flags |-> {}, count |-> 0, error |-> ""]

\* runIntegrationTest has not been called.
NoSuite ==
    [step |-> "none", authorization |-> <<>>, flagKey |-> "", results |-> <<>>,
     success |-> FALSE]

NetIdle ==
    /\ view = NoView
    /\ wire = {}
    /\ served = <<>>
    /\ sent = <<>>
    /\ suite = NoSuite

\* Requests handled in one run.
MaxRequests == 2

TestKeyHeader == BearerPrefix \o TestKey

AuthHeaders ==
    {<<>>, BasicHeader, TestKeyHeader, BearerPrefix \o ProdKey,
     BearerPrefix \o InvalidKey, BearerPrefix \o ConstructorChars,
     BearerPrefix \o ShortKey}

HexSamples == {"9f3a1c07"}

\* A body whose incident and source fields are as PathCanary sends them.
ValidBody(flag_key, enabled, metadata) ==
    [flag_key |-> Str(flag_key), enabled |-> Bool(enabled),
     incident_id |-> Str("test-123"), incident_message |-> Str("Test rollback"),
     source |-> Str("pathcanary"), metadata |-> metadata]

Metadatas ==
    {MetadataAbsent, MetadataNull, MetadataMap(Undefined), MetadataMap(Str("staging"))}

\* Flag names sent: one of each customer, an unknown one, and two names
\* every object inherits.
FlagNames ==
    {"new-checkout-flow", "mobile-app-redesign", "invalid-flag-xyz",
     "constructor", "__proto__"}

\* Well-formed bodies for every name and target state.
TargetBodies ==
    {ValidBody(k, e, MetadataAbsent) : k \in FlagNames, e \in BOOLEAN}

\* Well-formed bodies with every kind of metadata.
MetadataBodies ==
    {ValidBody(k, FALSE, m) : k \in {"new-checkout-flow", "invalid-flag-xyz"},
                              m \in Metadatas}

\* One field wrong at a time, for a flag that exists and one that does not.
SingleFaultBodies ==
    UNION {
        {[base EXCEPT !.flag_key = v] : v \in {Undefined, Str("")}}
        \cup {[base EXCEPT !.enabled = v] : v \in {Undefined, Str("true"), Num("1")}}
        \cup {[base EXCEPT !.incident_id = v] : v \in {Undefined, Str("")}}
        \cup {[base EXCEPT !.incident_message = v] : v \in {Undefined, Str("")}}
        \cup {[base EXCEPT !.source = v] : v \in {Undefined, Str("invalid-source")}}
        : base \in {ValidBody(k, FALSE, MetadataAbsent) :
                        k \in {"new-checkout-flow", "invalid-flag-xyz"}}}

\* Every combination of right and wrong fields.
FaultPatternBodies ==
    [flag_key : {Undefined, Str("new-checkout-flow")},
     enabled : {Str("true"), Bool(TRUE)},
     incident_id : {Undefined, Str("test-123")},
     incident_message : {Str(""), Str("Test rollback")},
     source : {Str("invalid-source"), Str("pathcanary")},
     metadata : {MetadataAbsent}]

EmptyBody ==
    [flag_key |-> Undefined, enabled |-> Undefined, incident_id |-> Undefined,
     incident_message |-> Undefined, source |-> Undefined, metadata |-> MetadataAbsent]

NoRequest ==
    [kind |-> "none", authorization |-> <<>>, request_id |-> Undefined,
     body |-> EmptyBody]

NoResponse ==
    Response(0, Undefined, Undefined, Undefined, Undefined, Undefined,
             NoProviderMetadata)

\* No GET /audit-log has been answered yet.
NoListing ==
    [kind |-> "none", authorization |-> <<>>,
     limit |-> [present |-> FALSE, chars |-> <<>>], status |-> 0,
     logs |-> <<>>, count |-> 0]

Database == [heap |-> heap, featureFlags |-> featureFlags, auditLog |-> auditLog]

ProviderInit ==
    /\ heap = InitialHeap
    /\ featureFlags = InitialFeatureFlags
    /\ auditLog = <<>>
    /\ clock = 0
    /\ req = NoRequest
    /\ res = NoResponse
    /\ prev = [heap |-> InitialHeap, featureFlags |-> InitialFeatureFlags,
               auditLog |-> <<>>]
    /\ listing = NoListing

Handle(r, out) ==
    /\ prev' = Database
    /\ req' = r
    /\ res' = out.res
    /\ heap' = out.heap
    /\ featureFlags' = out.featureFlags
    /\ auditLog' = out.auditLog
    /\ clock' = clock + 1
    /\ UNCHANGED listing

Request(kind, a, rid, b) ==
    [kind |-> kind, authorization |-> a, request_id |-> rid, body |-> b]

\* Bodies sent with headers that do not authenticate, and with a request id.
ProbeBodies ==
    {ValidBody("new-checkout-flow", FALSE, MetadataAbsent),
     ValidBody("constructor", TRUE, MetadataAbsent),
     ValidBody("invalid-flag-xyz", FALSE, MetadataNull),
     EmptyBody}

WebhookRequests ==
    {Request("webhook", TestKeyHeader, Undefined, b) :
        b \in TargetBodies \cup MetadataBodies \cup SingleFaultBodies
               \cup FaultPatternBodies}
    \cup {Request("webhook", a, Undefined, b) :
            a \in AuthHeaders, b \in TargetBodies \cup {EmptyBody}}
    \cup {Request("webhook", TestKeyHeader, Str("pc_1"), b) : b \in ProbeBodies}

\* POST /webhook/pathcanary with a JSON body
Webhook ==
    /\ UNCHANGED <<clientVars, netVars>>
    /\ clock < MaxRequests
    /\ \E r \in WebhookRequests, hex \in HexSamples :
          Handle(r, PostWebhook(heap, featureFlags, auditLog, r, clock + 1, hex))

\* POST /webhook/pathcanary with a body that is not JSON
MalformedWebhook ==
    /\ UNCHANGED <<clientVars, netVars>>
    /\ clock < MaxRequests
    /\ \E a \in AuthHeaders :
          Handle(Request("malformed", a, Undefined, EmptyBody),
                 ErrorHandler(heap, featureFlags, auditLog))

(***************************************************************************)
(* GET /audit-log (part_002:328-339)                                       *)
(***************************************************************************)
DefaultLimit == 50

Digits ==
    [c \in {"0", "1", "2", "3", "4", "5", "6", "7", "8", "9"} |->
        CASE c = "0" -> 0 [] c = "1" -> 1 [] c = "2" -> 2 [] c = "3" -> 3
          [] c = "4" -> 4 [] c = "5" -> 5 [] c = "6" -> 6 [] c = "7" -> 7
          [] c = "8" -> 8 [] c = "9" -> 9]

\* The value of the longest run of digits chars starts with, after acc.
RECURSIVE DigitRun(_, _)
DigitRun(chars, acc) ==
    IF chars = <<>> \/ Head(chars) \notin DOMAIN Digits THEN acc
    ELSE DigitRun(Tail(chars), 10 * acc + Digits[Head(chars)])

\* req.query.limit: absent, or the characters of the parameter
NoLimit == [present |-> FALSE, chars |-> <<>>]

Limit(chars) == [present |-> TRUE, chars |-> chars]

\* parseInt(req.query.limit): an optional sign and the leading digits; NaN
\* when there is no digit there or the parameter is absent.
parseInt(q) ==
    IF ~q.present THEN [nan |-> TRUE, n |-> 0]
    ELSE LET negative == q.chars # <<>> /\ Head(q.chars) = "-"
             unsigned ==
                 IF q.chars # <<>> /\ Head(q.chars) \in {"-", "+"}
                 THEN Tail(q.chars) ELSE q.chars
         IN  IF unsigned = <<>> \/ Head(unsigned) \notin DOMAIN Digits
             THEN [nan |-> TRUE, n |-> 0]
             ELSE [nan |-> FALSE,
                   n |-> IF negative THEN 0 - DigitRun(unsigned, 0)
                         ELSE DigitRun(unsigned, 0)]

\* Array.prototype.slice(start)
Slice(arr, start) ==
    LET k == IF start < 0
             THEN (IF Len(arr) + start < 0 THEN 0 ELSE Len(arr) + start)
             ELSE Min(start, Len(arr))
    IN  SubSeq(arr, k + 1, Len(arr))

\* Array.prototype.reverse()
Reverse(arr) == [i \in 1..Len(arr) |-> arr[Len(arr) - i + 1]]

\* The handler of lines 328-339, for an authenticated request.
AuditLogHandler(log, customer, q) ==
    LET parsed == parseInt(q)
        limit == IF parsed.nan \/ parsed.n = 0 THEN DefaultLimit ELSE parsed.n
        customerLogs ==
            Reverse(Slice(SelectSeq(log, LAMBDA e : e.customer_id = customer),
                          0 - limit))
    IN  [logs |-> customerLogs, count |-> Len(customerLogs)]

\* Audit entries written before a run starts.
Backlog == 999

\* Requests handled in a run that starts with that many entries.
MaxAudited == 2

\* The request that wrote them: an unknown flag of customer_001.
BacklogRequest ==
    Request("webhook", TestKeyHeader, Undefined,
            ValidBody("invalid-flag-xyz", FALSE, MetadataAbsent))

\* What the n-th of them leaves: the handler's answer and its audit entry,
\* neither of which depends on the entries logged before.
BacklogOutcome(n) ==
    PostWebhook(InitialHeap, InitialFeatureFlags, <<>>, BacklogRequest, n, "9f3a1c07")

\* The database after n such requests, none of which exceeds the capacity.
Replay(n) ==
    Outcome(IF n = 0 THEN NoResponse ELSE BacklogOutcome(n).res,
            InitialHeap, InitialFeatureFlags,
            [i \in 1..n |-> BacklogOutcome(i).auditLog[1]])

AuditInit ==
    LET before == Replay(Backlog - 1)
        after == Replay(Backlog)
    IN  /\ heap = after.heap
        /\ featureFlags = after.featureFlags
        /\ auditLog = after.auditLog
        /\ clock = Backlog
        /\ req = BacklogRequest
        /\ res = after.res
        /\ prev = [heap |-> before.heap, featureFlags |-> before.featureFlags,
                   auditLog |-> before.auditLog]
        /\ listing = NoListing

\* One request of each outcome.
AuditedRequests ==
    {Request("webhook", TestKeyHeader, Undefined, b) :
        b \in {ValidBody("new-checkout-flow", FALSE, MetadataAbsent),
               ValidBody("invalid-flag-xyz", FALSE, MetadataAbsent),
               ValidBody("invalid-flag-xyz", FALSE, MetadataNull),
               EmptyBody}}
    \cup {Request("webhook", BearerPrefix \o ProdKey, Undefined,
                  ValidBody("mobile-app-redesign", TRUE, MetadataAbsent)),
          Request("webhook", BearerPrefix \o InvalidKey, Undefined, EmptyBody),
          Request("webhook", <<>>, Undefined, EmptyBody)}

\* POST /webhook/pathcanary on a log that is nearly full
AuditedWebhook ==
    /\ UNCHANGED <<clientVars, netVars>>
    /\ clock < Backlog + MaxAudited
    /\ \E r \in AuditedRequests, hex \in HexSamples :
          Handle(r, PostWebhook(heap, featureFlags, auditLog, r, clock + 1, hex))

\* The limit parameters sent: absent, 5, 0, -1, abc.
Limits ==
    {NoLimit, Limit(<<"5">>), Limit(<<"0">>), Limit(<<"-", "1">>),
     Limit(<<"a", "b", "c">>)}

AuditLogRequests ==
    {[authorization |-> TestKeyHeader, limit |-> q] : q \in Limits}
    \cup {[authorization |-> BearerPrefix \o ProdKey, limit |-> q] :
            q \in {NoLimit, Limit(<<"5">>)}}
    \cup {[authorization |-> a, limit |-> NoLimit] :
            a \in {<<>>, BearerPrefix \o InvalidKey}}

\* GET /audit-log: validateApiKey, then the handler
GetAuditLog ==
    /\ UNCHANGED <<clientVars, netVars>>
    /\ clock < Backlog + MaxAudited
    /\ \E g \in AuditLogRequests :
          LET customer == AuthenticatedCustomer(heap, g.authorization)
              rejected == validateApiKey(heap, featureFlags, auditLog,
                                         g.authorization, clock + 1)
              answer == AuditLogHandler(auditLog, customer, g.limit)
          IN  IF customer = Undefined
              THEN /\ listing' = [kind |-> "auditlog",
                                  authorization |-> g.authorization,
                                  limit |-> g.limit, status |-> rejected.res.status,
                                  logs |-> <<>>, count |-> 0]
                   /\ auditLog' = rejected.auditLog
              ELSE /\ listing' = [kind |-> "auditlog",
                                  authorization |-> g.authorization,
                                  limit |-> g.limit, status |-> 200,
                                  logs |-> answer.logs, count |-> answer.count]
                   /\ UNCHANGED auditLog
    /\ clock' = clock + 1
    /\ UNCHANGED <<heap, featureFlags, req, res, prev>>

(***************************************************************************)
(* PathCanaryPartnerClient (sdk/client.ts)                                 *)
(***************************************************************************)
DefaultTimeout == 30000

DefaultRetryAttempts == 3

\* constructor (client.ts:47-54): the defaults, overridden by what is passed
Constructor(options) ==
    [k \in {"timeout", "retryAttempts"} |->
        IF k \in DOMAIN options THEN options[k]
        ELSE IF k = "timeout" THEN DefaultTimeout ELSE DefaultRetryAttempts]

\* A body the provider may send: the response fields as JSON values.
ResponseBody(success, flag_key, previous_state, new_state, error) ==
    [success |-> success, flag_key |-> flag_key, previous_state |-> previous_state,
     new_state |-> new_state, error |-> error]

NoBody == ResponseBody(Undefined, Undefined, Undefined, Undefined, Undefined)

\* What one fetch meets: the abort timer firing first, a network failure, or
\* a response with a status, a body text that parses as JSON or does not,
\* and the parsed body.
Aborted == [kind |-> "abort", status |-> 0, parses |-> FALSE, text |-> "", body |-> NoBody]

NetworkFailure ==
    [kind |-> "network", status |-> 0, parses |-> FALSE, text |-> "", body |-> NoBody]

HttpResponse(status, parses, text, body) ==
    [kind |-> "response", status |-> status, parses |-> parses, text |-> text,
     body |-> body]

Returned(data) == [kind |-> "return", data |-> data, message |-> ""]

Thrown(message) == [kind |-> "throw", data |-> NoBody, message |-> message]

RequiredFields == <<"success", "flag_key", "previous_state", "new_state">>

\* missing.join(', ') over the required fields, in their order
RECURSIVE JoinMissing(_, _)
JoinMissing(response, i) ==
    IF i > Len(RequiredFields) THEN ""
    ELSE LET rest == JoinMissing(response, i + 1)
             name == RequiredFields[i]
         IN  IF response[name] # Undefined THEN rest
             ELSE IF rest = "" THEN name
             ELSE name \o ", " \o rest

\* validateResponse (client.ts:148-175): the message of the error it throws,
\* "" when it returns.  `field in response` (line 150) is itself a TypeError
\* when the parsed body is null.
validateResponse(response) ==
    IF response = Null
    THEN "Cannot use 'in' operator to search for 'success' in null"
    ELSE IF JoinMissing(response, 1) # ""
    THEN "Invalid response: missing required fields: " \o JoinMissing(response, 1)
    ELSE IF response.success.t # "boolean"
    THEN "Invalid response: \"success\" must be a boolean"
    ELSE IF response.flag_key.t # "string"
    THEN "Invalid response: \"flag_key\" must be a string"
    ELSE IF response.previous_state.t # "boolean"
    THEN "Invalid response: \"previous_state\" must be a boolean"
    ELSE IF response.new_state.t # "boolean"
    THEN "Invalid response: \"new_state\" must be a boolean"
    ELSE IF Truthy(response.error) /\ response.error.t # "string"
    THEN "Invalid response: \"error\" must be a string"
    ELSE ""

\* A single attempt that looks at the body before the status.
testToggleFlagTrustingBody(cfg, x) ==
    IF x.kind = "abort"
    THEN Thrown("Request timeout after " \o ToString(cfg["timeout"]) \o "ms")
    ELSE IF x.kind = "network"
    THEN Thrown("fetch failed")
    ELSE IF x.parses /\ validateResponse(x.body) = ""
    THEN Returned(x.body)
    ELSE IF ~(x.status >= 200 /\ x.status <= 299)
    THEN Thrown("HTTP " \o ToString(x.status) \o ": " \o x.text)
    ELSE IF ~x.parses
    THEN Thrown("Unexpected token < in JSON at position 0")
    ELSE Thrown(validateResponse(x.body))

\* A single attempt that treats success:false as an error.
testToggleFlagRejectingFailure(cfg, x) ==
    IF x.kind = "abort"
    THEN Thrown("Request timeout after " \o ToString(cfg["timeout"]) \o "ms")
    ELSE IF x.kind = "network"
    THEN Thrown("fetch failed")
    ELSE IF ~(x.status >= 200 /\ x.status <= 299)
    THEN Thrown("HTTP " \o ToString(x.status) \o ": " \o x.text)
    ELSE IF ~x.parses
    THEN Thrown("Unexpected token < in JSON at position 0")
    ELSE IF validateResponse(x.body) # ""
    THEN Thrown(validateResponse(x.body))
    ELSE IF x.body.success = Bool(FALSE)
    THEN Thrown("Toggle failed: " \o x.body.error.s)
    ELSE Returned(x.body)

\* testToggleFlag (client.ts:60-114) for a request that meets exchange x
testToggleFlag(cfg, x) ==
    IF x.kind = "abort"
    THEN Thrown("Request timeout after " \o ToString(cfg["timeout"]) \o "ms")
    ELSE IF x.kind = "network"
    THEN Thrown("fetch failed")
    ELSE IF ~(x.status >= 200 /\ x.status <= 299)
    THEN Thrown("HTTP " \o ToString(x.status) \o ": " \o x.text)
    ELSE IF ~x.parses
    THEN Thrown("Unexpected token < in JSON at position 0")
    ELSE IF validateResponse(x.body) # ""
    THEN Thrown(validateResponse(x.body))
    ELSE Returned(x.body)

\* A loop that stops one attempt short.
LoopStopsEarly(n, retryAttempts) == n < retryAttempts

\* The loop condition of client.ts:122
LoopContinues(n, retryAttempts) == n <= retryAttempts

\* The guard of the backoff, client.ts:132
SleepsAfter(n, retryAttempts) == n < retryAttempts

\* A backoff that keeps doubling.
BackoffDelayUncapped(n) == 1000 * 2 ^ (n - 1)

\* client.ts:133
BackoffDelay(n) == Min(1000 * 2 ^ (n - 1), 10000)

\* client.ts:142; lastError?.message is undefined while lastError is null
AggregateMessage(retryAttempts, last) ==
    "Failed after " \o ToString(retryAttempts) \o " attempts: "
    \o (IF last = Null THEN "undefined" ELSE last.s)

\* Attempts one call may be configured with.
MaxRetryAttempts == 6

ConfigOptions ==
    {[apiKey |-> TestKey]}
    \cup {[apiKey |-> TestKey, retryAttempts |-> n] : n \in 0..MaxRetryAttempts}

NotFoundBody ==
    ResponseBody(Bool(FALSE), Str("invalid-flag-xyz"), Bool(FALSE), Bool(FALSE),
                 Str("Feature flag 'invalid-flag-xyz' not found for customer customer_001"))

ToggledBody ==
    ResponseBody(Bool(TRUE), Str("new-checkout-flow"), Bool(TRUE), Bool(FALSE), Undefined)

Exchanges ==
    {Aborted, NetworkFailure,
     HttpResponse(401, TRUE, "{\"success\":false,\"error\":\"Invalid API key\"}",
                  ResponseBody(Bool(FALSE), Undefined, Undefined, Undefined,
                               Str("Invalid API key"))),
     HttpResponse(500, TRUE, "{\"success\":false}", NotFoundBody),
     HttpResponse(200, FALSE, "<html>", NoBody),
     HttpResponse(200, TRUE, "{\"success\":true}",
                  ResponseBody(Bool(TRUE), Undefined, Undefined, Undefined, Undefined)),
     HttpResponse(200, TRUE, "{...}", ToggledBody),
     HttpResponse(200, TRUE, "{...}", NotFoundBody)}

Pending == [kind |-> "pending", data |-> NoBody, message |-> ""]

\* No request is in flight.
NoExchange == [kind |-> "none", status |-> 0, parses |-> FALSE, text |-> "", body |-> NoBody]

\* testToggleFlag has not been called.
NoCall ==
    [phase |-> "none", elapsed |-> 0, armed |-> FALSE, x |-> NoExchange,
     result |-> Pending]

ClientIdle ==
    /\ config = Constructor([apiKey |-> TestKey])
    /\ pc = "idle"
    /\ attempt = 0
    /\ lastError = Null
    /\ delay = 0
    /\ exchanges = <<>>
    /\ sleeps = <<>>
    /\ outcome = Pending
    /\ call = NoCall

\* new PathCanaryPartnerClient(options).testToggleFlagWithRetry(request) is called
ClientInit ==
    /\ config \in {Constructor(o) : o \in ConfigOptions}
    /\ pc = "attempt"
    /\ attempt = 1
    /\ lastError = Null
    /\ delay = 0
    /\ exchanges = <<>>
    /\ sleeps = <<>>
    /\ outcome = Pending
    /\ call = NoCall

\* One pass through the loop body: the request is sent and settles
Attempt ==
    /\ UNCHANGED <<providerVars, netVars>>
    /\ pc = "attempt"
    /\ LoopContinues(attempt, config["retryAttempts"])
    /\ \E x \in Exchanges :
          LET r == testToggleFlag(config, x)
          IN  /\ exchanges' = Append(exchanges, x)
              /\ IF r.kind = "return"
                 THEN /\ outcome' = r
                      /\ pc' = "returned"
                      /\ UNCHANGED <<attempt, lastError, delay>>
                 ELSE /\ lastError' = Str(r.message)
                      /\ UNCHANGED outcome
                      /\ IF SleepsAfter(attempt, config["retryAttempts"])
                         THEN /\ delay' = BackoffDelay(attempt)
                              /\ pc' = "backoff"
                              /\ UNCHANGED attempt
                         ELSE /\ attempt' = attempt + 1
                              /\ UNCHANGED <<delay, pc>>
    /\ UNCHANGED <<config, sleeps, call>>

\* The backoff timer fires and the loop goes round
Backoff ==
    /\ UNCHANGED <<providerVars, netVars>>
    /\ pc = "backoff"
    /\ sleeps' = Append(sleeps, delay)
    /\ attempt' = attempt + 1
    /\ pc' = "attempt"
    /\ UNCHANGED <<config, lastError, delay, exchanges, outcome, call>>

\* The loop is left without a result
GiveUp ==
    /\ UNCHANGED <<providerVars, netVars>>
    /\ pc = "attempt"
    /\ ~LoopContinues(attempt, config["retryAttempts"])
    /\ outcome' = Thrown(AggregateMessage(config["retryAttempts"], lastError))
    /\ pc' = "thrown"
    /\ UNCHANGED <<config, attempt, lastError, delay, exchanges, sleeps, call>>

(***************************************************************************)
(* One call of testToggleFlag in time (client.ts:60-114): the abort timer  *)
(* is set before fetch (line 69) and cleared as soon as fetch resolves     *)
(* with the response headers (line 83); the body is read after that        *)
(* (lines 88 and 92).                                                      *)
(***************************************************************************)
\* Milliseconds a run of the call is followed for.
MaxElapsed == 40000

\* Configurations the call is made with: the default timeout and two others.
CallConfigs ==
    {Constructor([apiKey |-> TestKey])}
    \cup {Constructor([apiKey |-> TestKey, timeout |-> t]) : t \in {1000, 5000}}

\* What the provider may answer: as above, and a body that is JSON null,
\* ill-typed fields, and well-formed bodies under a non-2xx status.
CallExchanges ==
    Exchanges
    \cup {HttpResponse(200, TRUE, "null", Null),
          HttpResponse(200, TRUE, "{...}",
                       ResponseBody(Str("true"), Str("new-checkout-flow"),
                                    Bool(TRUE), Bool(FALSE), Undefined)),
          HttpResponse(200, TRUE, "{...}",
                       ResponseBody(Bool(TRUE), Str("new-checkout-flow"),
                                    Bool(TRUE), Null, Undefined)),
          HttpResponse(201, TRUE, "{...}",
                       ResponseBody(Bool(FALSE), Str("new-checkout-flow"),
                                    Bool(FALSE), Bool(FALSE), Num("42"))),
          HttpResponse(400, TRUE, "{\"success\":false}",
                       ResponseBody(Bool(FALSE), Str(""), Bool(FALSE), Bool(FALSE),
                                    Str("Missing required field: flag_key"))),
          HttpResponse(404, TRUE, "{\"success\":true}", ToggledBody)}

\* new PathCanaryPartnerClient(options).testToggleFlag(request) is called:
\* the timer is armed and the request is sent
CallInit ==
    /\ config \in CallConfigs
    /\ pc = "idle"
    /\ attempt = 0
    /\ lastError = Null
    /\ delay = 0
    /\ exchanges = <<>>
    /\ sleeps = <<>>
    /\ outcome = Pending
    /\ call = [phase |-> "fetching", elapsed |-> 0, armed |-> TRUE,
               x |-> NoExchange, result |-> Pending]

\* Time passes; an armed timer fires no later than its deadline
Tick ==
    /\ UNCHANGED <<providerVars, netVars>>
    /\ call.phase \in {"fetching", "reading"}
    /\ \E d \in {1000, 10000} :
          /\ call.elapsed + d <= MaxElapsed
          /\ call.armed => call.elapsed + d <= config["timeout"]
          /\ call' = [call EXCEPT !.elapsed = @ + d]
    /\ UNCHANGED <<config, pc, attempt, lastError, delay, exchanges, sleeps, outcome>>

\* setTimeout(() => controller.abort(), timeout) fires while fetch is pending
TimerFires ==
    /\ UNCHANGED <<providerVars, netVars>>
    /\ call.phase = "fetching"
    /\ call.armed
    /\ call.elapsed >= config["timeout"]
    /\ call' = [call EXCEPT !.phase = "settled", !.armed = FALSE, !.x = Aborted,
                            !.result = testToggleFlag(config, Aborted)]
    /\ UNCHANGED <<config, pc, attempt, lastError, delay, exchanges, sleeps, outcome>>

\* fetch rejects: the connection could not be made
FetchRejects ==
    /\ UNCHANGED <<providerVars, netVars>>
    /\ call.phase = "fetching"
    /\ call' = [call EXCEPT !.phase = "settled", !.x = NetworkFailure,
                            !.result = testToggleFlag(config, NetworkFailure)]
    /\ UNCHANGED <<config, pc, attempt, lastError, delay, exchanges, sleeps, outcome>>

\* fetch resolves with the status line and headers; clearTimeout (line 83)
HeadersArrive ==
    /\ UNCHANGED <<providerVars, netVars>>
    /\ call.phase = "fetching"
    /\ \E x \in CallExchanges :
          /\ x.kind = "response"
          /\ call' = [call EXCEPT !.phase = "reading", !.armed = FALSE, !.x = x]
    /\ UNCHANGED <<config, pc, attempt, lastError, delay, exchanges, sleeps, outcome>>

\* response.text() or response.json() resolves: the body is complete
BodyArrives ==
    /\ UNCHANGED <<providerVars, netVars>>
    /\ call.phase = "reading"
    /\ call' = [call EXCEPT !.phase = "settled",
                            !.result = testToggleFlag(config, call.x)]
    /\ UNCHANGED <<config, pc, attempt, lastError, delay, exchanges, sleeps, outcome>>

CallNext == Tick \/ TimerFires \/ FetchRejects \/ HeadersArrive \/ BodyArrives

CallSpecInit == ProviderInit /\ CallInit /\ NetIdle

CallSpec == CallSpecInit /\ [][CallNext]_vars


(***************************************************************************)
(* GET /flags/:flagKey and GET /flags (part_002:299-323)                   *)
(***************************************************************************)
\* JSON.stringify of a flag value: its own properties; a function has no
\* JSON text of its own and is null inside an array.
FlagJson(h, flag, inArray) ==
    IF flag.t = "function"
    THEN [t |-> IF inArray THEN "null" ELSE "undefined", props |-> NoProps]
    ELSE [t |-> "object", props |-> [n \in DOMAIN NoProps |-> ToJson(h[flag.s][n])]]

\* app.get('/flags/:flagKey') for an authenticated customer
GetFlagHandler(h, flags, customer, flagKey) ==
    LET c == ToStr(customer)
        customerFlags ==
            IF c \in DOMAIN flags THEN flags[c] ELSE [k \in {} |-> Undefined]
        flag == Lookup(h, customerFlags, flagKey)
    IN  IF ~Truthy(flag)
        THEN [status |-> 404, flags |-> {}, count |-> 0,
              error |-> "Flag '" \o flagKey \o "' not found"]
        ELSE [status |-> 200,
              flags |-> {[key |-> flagKey, json |-> FlagJson(h, flag, FALSE)]},
              count |-> 1, error |-> ""]

\* app.get('/flags') for an authenticated customer: Object.values and
\* Object.keys of the customer's own properties
GetFlagsHandler(h, flags, customer) ==
    LET c == ToStr(customer)
        customerFlags ==
            IF c \in DOMAIN flags THEN flags[c] ELSE [k \in {} |-> Undefined]
    IN  [status |-> 200,
         flags |-> {[key |-> k, json |-> FlagJson(h, customerFlags[k], TRUE)] :
                        k \in DOMAIN customerFlags},
         count |-> Cardinality(DOMAIN customerFlags), error |-> ""]

\* Requests of the two customers, and of a caller without a key, for a flag
\* of each customer and a name every object inherits.
TenantHeaders == {TestKeyHeader, BearerPrefix \o ProdKey}

TenantFlagNames == {"new-checkout-flow", "mobile-app-redesign", "constructor"}

TenantRequests ==
    {Request("webhook", a, Undefined, ValidBody(k, e, MetadataAbsent)) :
        a \in TenantHeaders, k \in TenantFlagNames, e \in BOOLEAN}

\* POST /webhook/pathcanary by one of the customers
TenantWebhook ==
    /\ UNCHANGED <<clientVars, netVars>>
    /\ clock < MaxRequests
    /\ \E r \in TenantRequests, hex \in HexSamples :
          Handle(r, PostWebhook(heap, featureFlags, auditLog, r, clock + 1, hex))

\* The answer to a GET, after validateApiKey
Viewed(kind, a, flagKey) ==
    LET customer == AuthenticatedCustomer(heap, a)
        rejected == validateApiKey(heap, featureFlags, auditLog, a, clock + 1)
        answer ==
            IF kind = "flag"
            THEN GetFlagHandler(heap, featureFlags, customer, flagKey)
            ELSE GetFlagsHandler(heap, featureFlags, customer)
    IN  /\ IF customer = Undefined
           THEN /\ view' = [kind |-> kind, authorization |-> a, flagKey |-> flagKey,
                            at |-> clock + 1, status |-> rejected.res.status, flags |-> {},
                            count |-> 0, error |-> rejected.res.error.s]
                /\ auditLog' = rejected.auditLog
           ELSE /\ view' = [kind |-> kind, authorization |-> a, flagKey |-> flagKey,
                            at |-> clock + 1, status |-> answer.status, flags |-> answer.flags,
                            count |-> answer.count, error |-> answer.error]
                /\ UNCHANGED auditLog
        /\ clock' = clock + 1
        /\ UNCHANGED <<heap, featureFlags, req, res, prev, listing>>
        /\ UNCHANGED <<wire, served, sent, suite>>
        /\ UNCHANGED clientVars

\* GET /flags/:flagKey
GetFlag ==
    /\ clock < MaxRequests
    /\ \E a \in TenantHeaders \cup {BearerPrefix \o InvalidKey},
          k \in TenantFlagNames :
          Viewed("flag", a, k)

\* GET /flags
GetFlags ==
    /\ clock < MaxRequests
    /\ \E a \in TenantHeaders \cup {BearerPrefix \o InvalidKey} :
          Viewed("flags", a, "")


(***************************************************************************)
(* Callers of the SDK against the provider: each caller runs               *)
(* testToggleFlagWithRetry (client.ts:119-143), every attempt is one       *)
(* testToggleFlag (client.ts:60-114) whose request the provider handles    *)
(* in one run of its middleware chain (part_002:129-282, which has no      *)
(* await), in whatever order the requests reach it.                        *)
(***************************************************************************)
\* client.ts:180-182, at Date.now() = now and with the seven characters
\* Math.random().toString(36).substring(2, 9) yields
generateRequestIdSdk(now, rand) == "pc_" \o ToString(now) \o "_" \o rand

RandSamples == {"k3x9q2a", "p0m4z7c"}

\* JSON.stringify of one value of a response body
JsonValue(v) ==
    CASE v.t = "boolean" -> (IF v.b THEN "true" ELSE "false")
      [] v.t = "null" -> "null"
      [] v.t = "number" -> v.s
      [] OTHER -> "\"" \o v.s \o "\""

\* The members of an object, those with an undefined value left out
RECURSIVE JsonMembers(_)
JsonMembers(pairs) ==
    IF pairs = <<>> THEN ""
    ELSE LET rest == JsonMembers(Tail(pairs))
             name == Head(pairs)[1]
             value == Head(pairs)[2]
         IN  IF value = Undefined THEN rest
             ELSE "\"" \o name \o "\":" \o JsonValue(value)
                  \o (IF rest = "" THEN "" ELSE "," \o rest)

\* The body text res.json(...) sends (duration_ms, a measured time, left out)
JsonText(r) ==
    LET pm == r.provider_metadata
        top == JsonMembers(<< <<"success", r.success>>, <<"flag_key", r.flag_key>>,
                              <<"previous_state", r.previous_state>>,
                              <<"new_state", r.new_state>>, <<"error", r.error>>,
                              <<"request_id", r.request_id>> >>)
        inner == JsonMembers(<< <<"flag_id", pm.flag_id>>,
                                <<"customer_id", pm.customer_id>>,
                                <<"environment", pm.environment>>,
                                <<"updated_at", pm.updated_at>>,
                                <<"request_id", pm.request_id>> >>)
    IN  "{" \o top
        \o (IF pm.present THEN ",\"provider_metadata\":{" \o inner \o "}" ELSE "")
        \o "}"

\* What fetch resolves with for the provider's answer r (client.ts:71-92)
Fetched(r) ==
    HttpResponse(r.status, TRUE, JsonText(r),
                 ResponseBody(r.success, r.flag_key, r.previous_state,
                              r.new_state, r.error))

\* The request testToggleFlag posts (client.ts:71-81)
Posted(authorization, id, body) == Request("webhook", authorization, Str(id), body)

Callers == {"a", "b"}

\* Attempts sent in one run, by all callers together.
MaxAttempts == 2

\* The requests callers make: a flag of the customer set to either state,
\* an unknown flag, and an unknown flag with metadata null.
CallerBodies ==
    {ValidBody("new-checkout-flow", e, MetadataAbsent) : e \in BOOLEAN}
    \cup {ValidBody("invalid-flag-xyz", FALSE, MetadataAbsent),
          ValidBody("invalid-flag-xyz", FALSE, MetadataNull)}

\* The attempts of caller c, as indices into sent
AttemptsOf(c) == {i \in 1..Len(sent) : sent[i].caller = c}

\* The latest attempt of caller c
LastAttempt(c) == CHOOSE i \in AttemptsOf(c) : \A j \in AttemptsOf(c) : j <= i

\* Attempt n of caller c is sent at time now: the id is generated and the
\* request is on its way
SendAttempt(c, n, body, now, rand) ==
    /\ sent' = Append(sent, [caller |-> c, n |-> n, at |-> now,
                             id |-> generateRequestIdSdk(now, rand),
                             body |-> body, x |-> NoExchange])
    /\ wire' = wire \cup {Len(sent) + 1}

\* A caller calls testToggleFlagWithRetry: the first attempt is sent.  The
\* callers are alike, so "a" is the name of whoever calls first.
Call ==
    /\ Len(sent) < MaxAttempts
    /\ \E c \in Callers, body \in CallerBodies, rand \in RandSamples :
          /\ AttemptsOf(c) = {}
          /\ c = "a" \/ AttemptsOf("a") # {}
          /\ LoopContinues(1, config["retryAttempts"])
          /\ SendAttempt(c, 1, body, clock, rand)
    /\ UNCHANGED <<providerVars, clientVars, view, served, suite>>

\* The provider handles one of the requests that have reached it; the answer
\* goes to the caller unless its attempt has been given up already
Serve ==
    /\ \E i \in wire, hex \in HexSamples :
          LET r == Posted(TestKeyHeader, sent[i].id, sent[i].body)
              out == PostWebhook(heap, featureFlags, auditLog, r, clock + 1, hex)
          IN  /\ Handle(r, out)
              /\ served' = Append(served,
                    [i |-> i, res |-> out.res,
                     entries |-> SubSeq(out.auditLog, Len(auditLog) + 1,
                                        Len(out.auditLog))])
              /\ wire' = wire \ {i}
              /\ sent' = IF sent[i].x = NoExchange
                         THEN [sent EXCEPT ![i].x = Fetched(out.res)]
                         ELSE sent
    /\ UNCHANGED <<clientVars, view, suite>>

\* An attempt fails at the caller: the abort timer fires after the timeout
\* and the request may still reach the provider, or fetch rejects and the
\* request never arrives
Fail ==
    /\ \E i \in 1..Len(sent) :
          /\ sent[i].x = NoExchange
          /\ \/ /\ sent' = [sent EXCEPT ![i].x = Aborted]
                /\ clock' = IF clock < sent[i].at + config["timeout"]
                            THEN sent[i].at + config["timeout"] ELSE clock
                /\ UNCHANGED wire
             \/ /\ i \in wire
                /\ sent' = [sent EXCEPT ![i].x = NetworkFailure]
                /\ wire' = wire \ {i}
                /\ UNCHANGED clock
    /\ UNCHANGED <<heap, featureFlags, auditLog, req, res, prev, listing>>
    /\ UNCHANGED <<clientVars, view, served, suite>>

\* The catch of client.ts:127-138 after an attempt that threw: the backoff
\* is waited out and the loop sends the next attempt
Retry ==
    /\ Len(sent) < MaxAttempts
    /\ \E c \in Callers, rand \in RandSamples :
          /\ AttemptsOf(c) # {}
          /\ LET last == sent[LastAttempt(c)]
             IN  /\ last.x # NoExchange
                 /\ testToggleFlag(config, last.x).kind = "throw"
                 /\ SleepsAfter(last.n, config["retryAttempts"])
                 /\ LoopContinues(last.n + 1, config["retryAttempts"])
                 /\ clock' = clock + BackoffDelay(last.n)
                 /\ SendAttempt(c, last.n + 1, last.body, clock', rand)
    /\ UNCHANGED <<heap, featureFlags, auditLog, req, res, prev, listing>>
    /\ UNCHANGED <<clientVars, view, served, suite>>


(***************************************************************************)
(* runIntegrationTest (client.ts:187-256) and runTest (client.ts:258-280)  *)
(* against the provider                                                    *)
(***************************************************************************)
\* String.prototype.includes
Includes(str, part) ==
    \E i \in 1..(Len(str) - Len(part) + 1) : SubSeq(str, i, i + Len(part) - 1) = part

\* The request each test sends
SuiteRequest(flag_key, incident_id, incident_message) ==
    [flag_key |-> Str(flag_key), enabled |-> Bool(FALSE),
     incident_id |-> Str(incident_id), incident_message |-> Str(incident_message),
     source |-> Str("pathcanary"), metadata |-> MetadataAbsent]

\* The threshold of the third test, in milliseconds (client.ts:240)
ResponseTimeThreshold == 5000

\* Milliseconds a call may take.
Durations == {12, 4800, 5200}

\* The error a test function throws, "" when it returns, given how its call
\* of testToggleFlag settled and how long that took
ToggleOffTest(settled) ==
    IF settled.kind = "throw" THEN settled.message
    ELSE IF settled.data.new_state # Bool(FALSE)
    THEN "Expected new_state to be false, got " \o ToStr(settled.data.new_state)
    ELSE ""

ErrorHandlingTest(settled) ==
    LET message ==
            IF settled.kind = "throw" THEN settled.message
            ELSE "Should have thrown an error for invalid flag"
    IN  IF Includes(message, "Should have thrown") THEN message ELSE ""

ResponseTimeTest(settled, duration) ==
    IF settled.kind = "throw" THEN settled.message
    ELSE IF duration > ResponseTimeThreshold
    THEN "Response time " \o ToString(duration) \o "ms exceeds "
         \o ToString(ResponseTimeThreshold) \o "ms threshold"
    ELSE ""

\* runTest: the result pushed for a test function that threw `error`
TestResult(name, duration, error) ==
    [test |-> name, passed |-> error = "", duration |-> duration, error |-> error]

\* One test of the suite: its request is sent, the provider handles it, and
\* the result is pushed
RunTest(step, next, body, duration, rand) ==
    LET r == Posted(suite.authorization, generateRequestIdSdk(clock, rand), body)
        out == PostWebhook(heap, featureFlags, auditLog, r, clock + 1, "9f3a1c07")
        settled == testToggleFlag(config, Fetched(out.res))
        result ==
            CASE step = "Toggle flag OFF" ->
                    TestResult(step, duration, ToggleOffTest(settled))
              [] step = "Error handling for invalid flag" ->
                    TestResult(step, duration, ErrorHandlingTest(settled))
              [] OTHER ->
                    TestResult(step, duration, ResponseTimeTest(settled, duration))
    IN  /\ suite.step = step
        /\ Handle(r, out)
        /\ suite' = [suite EXCEPT !.step = next, !.results = Append(@, result)]
        /\ UNCHANGED <<clientVars, view, wire, served, sent>>

TestToggleOff ==
    \E d \in Durations, rand \in RandSamples :
        RunTest("Toggle flag OFF", "Error handling for invalid flag",
                SuiteRequest(suite.flagKey, "test-incident-123",
                             "Integration test - disable flag"),
                d, rand)

TestErrorHandling ==
    \E d \in Durations, rand \in RandSamples :
        RunTest("Error handling for invalid flag", "Response time < 5 seconds",
                SuiteRequest("invalid-flag-that-does-not-exist-xyz",
                             "test-incident-456", "Integration test - error case"),
                d, rand)

TestResponseTime ==
    \E d \in Durations, rand \in RandSamples :
        RunTest("Response time < 5 seconds", "return",
                SuiteRequest(suite.flagKey, "test-incident-789",
                             "Integration test - performance"),
                d, rand)

\* return { success: allPassed, results }
SuiteReturns ==
    /\ suite.step = "return"
    /\ suite' = [suite EXCEPT
                    !.step = "returned",
                    !.success = \A i \in 1..Len(suite.results) : suite.results[i].passed]
    /\ UNCHANGED <<providerVars, clientVars, view, wire, served, sent>>

\* createTestClient(webhookUrl, apiKey).runIntegrationTest(flagKey) is called
SuiteInit ==
    /\ view = NoView
    /\ wire = {}
    /\ served = <<>>
    /\ sent = <<>>
    /\ suite \in [step : {"Toggle flag OFF"}, authorization : TenantHeaders,
                  flagKey : TenantFlagNames \cup {"beta-search"},
                  results : {<<>>}, success : {FALSE}]

Init == ProviderInit /\ ClientIdle /\ NetIdle

Next == Webhook \/ MalformedWebhook

Spec == Init /\ [][Next]_vars

ClientSpecInit == ProviderInit /\ ClientInit /\ NetIdle

ClientNext == Attempt \/ Backoff \/ GiveUp

ClientSpec == ClientSpecInit /\ [][ClientNext]_vars


TenantNext == TenantWebhook \/ GetFlag \/ GetFlags

TenantSpec == Init /\ [][TenantNext]_vars


NetNext == Call \/ Serve \/ Fail \/ Retry

NetSpec == Init /\ [][NetNext]_vars


SuiteSpecInit == ProviderInit /\ ClientIdle /\ SuiteInit

SuiteNext == TestToggleOff \/ TestErrorHandling \/ TestResponseTime \/ SuiteReturns

SuiteSpec == SuiteSpecInit /\ [][SuiteNext]_vars

AuditNext == AuditedWebhook \/ GetAuditLog

AuditSpecInit == AuditInit /\ ClientIdle /\ NetIdle

AuditSpec == AuditSpecInit /\ [][AuditNext]_vars

(***************************************************************************)
(* Vocabulary of the properties, taken from the request and the seeded     *)
(* database rather than from the handler.                                  *)
(***************************************************************************)
\* The header is `Bearer <one of the configured API keys>`.
HasConfiguredKey(r) ==
    /\ StartsWith(r.authorization, BearerPrefix)
    /\ SubstringFrom(r.authorization, 7) \in {TestKey, ProdKey}

\* The customer a configured key belongs to.
TenantOf(r) == apiKeys[Join(SubstringFrom(r.authorization, 7))].s

NonEmptyString(v) == v.t = "string" /\ v.s # ""

\* The body carries every required field with the required type.
WellFormed(b) ==
    /\ NonEmptyString(b.flag_key)
    /\ b.enabled.t = "boolean"
    /\ NonEmptyString(b.incident_id)
    /\ NonEmptyString(b.incident_message)
    /\ b.source = Str("pathcanary")

\* The request names one of the seeded flags of its own customer.
NamesOwnFlag(r) ==
    /\ HasConfiguredKey(r)
    /\ r.body.flag_key.t = "string"
    /\ r.body.flag_key.s \in DOMAIN InitialFeatureFlags[TenantOf(r)]

\* The heap object of that flag.
OwnFlag(r) == InitialFeatureFlags[TenantOf(r)][r.body.flag_key.s].s

\* No seeded flag of any customer has another enabled value than before.
EnabledUnchanged ==
    \A o \in FlagObjects : heap[o].enabled = prev.heap[o].enabled

\* The audit entries the last request appended.
Appended == SubSeq(auditLog, Len(prev.auditLog) + 1, Len(auditLog))

AppendedActions == [i \in 1..Len(Appended) |-> Appended[i].action]

(***************************************************************************)
(* Provider properties (Spec)                                              *)
(***************************************************************************)

\* C1 (auth gate): every request to POST /webhook/pathcanary whose
\* Authorization header is absent, is not `Bearer ...`, or carries a token
\* that is not a configured API key is answered 401 with success:false,
\* changes no flag's enabled state and appends no FLAG_TOGGLED entry.
C1_AuthGate ==
    (req.kind # "none" /\ ~HasConfiguredKey(req)) =>
        /\ res.status = 401
        /\ res.success = Bool(FALSE)
        /\ EnabledUnchanged
        /\ \A i \in 1..Len(Appended) : Appended[i].action # "FLAG_TOGGLED"

\* C2 (validation gate): every authenticated request whose body lacks a
\* required field, or carries it with the wrong type, is answered 400 with
\* success:false, previous_state:false, new_state:false and an error
\* string, and no flag changes.
C2_ValidationGate ==
    (req.kind = "webhook" /\ HasConfiguredKey(req) /\ ~WellFormed(req.body)) =>
        /\ res.status = 400
        /\ res.success = Bool(FALSE)
        /\ res.previous_state = Bool(FALSE)
        /\ res.new_state = Bool(FALSE)
        /\ res.error.t = "string"
        /\ \A o \in FlagObjects : heap[o] = prev.heap[o]

\* C3 (set semantics): an authenticated, well-formed request naming a flag
\* of its customer is answered 200 with success:true, previous_state the
\* flag's enabled value before the request and new_state the requested
\* value; afterwards the stored flag has the requested value and
\* update_reason "Incident <incident_id>: <incident_message>".
C3_SetSemantics ==
    (req.kind = "webhook" /\ NamesOwnFlag(req) /\ WellFormed(req.body)) =>
        /\ res.status = 200
        /\ res.success = Bool(TRUE)
        /\ res.previous_state = prev.heap[OwnFlag(req)].enabled
        /\ res.new_state = req.body.enabled
        /\ heap[OwnFlag(req)].enabled = req.body.enabled
        /\ heap[OwnFlag(req)].update_reason =
              Str("Incident " \o req.body.incident_id.s \o ": "
                  \o req.body.incident_message.s)

\* A flag that was on has been set off.
C3_Witness ==
    /\ req.kind = "webhook" /\ NamesOwnFlag(req) /\ WellFormed(req.body)
    /\ prev.heap[OwnFlag(req)].enabled = Bool(TRUE)
    /\ req.body.enabled = Bool(FALSE)
    /\ heap[OwnFlag(req)].enabled = Bool(FALSE)
    /\ res.success = Bool(TRUE)

\* C4 (idempotence): when a well-formed toggle of an existing flag to v is
\* sent again as the very next request, both answers have success:true and
\* new_state v, the second has previous_state v, and the stored flag state
\* after the second equals the state after the first.
C4_Idempotence ==
    [][(/\ req.kind = "webhook" /\ NamesOwnFlag(req) /\ WellFormed(req.body)
        /\ req' = req
        /\ clock' = clock + 1)
       => /\ res.success = Bool(TRUE)
          /\ res.new_state = req.body.enabled
          /\ res'.success = Bool(TRUE)
          /\ res'.new_state = req.body.enabled
          /\ res'.previous_state = req.body.enabled
          /\ heap'[OwnFlag(req)].enabled = heap[OwnFlag(req)].enabled
          /\ heap'[OwnFlag(req)].update_reason = heap[OwnFlag(req)].update_reason
      ]_vars

\* The second of two toggles of a flag to the same state for the same
\* incident has been answered.
C4_Witness ==
    /\ clock = 2
    /\ req.kind = "webhook" /\ NamesOwnFlag(req) /\ WellFormed(req.body)
    /\ prev.heap[OwnFlag(req)].updated_by = Str("pathcanary")
    /\ prev.heap[OwnFlag(req)].update_reason = heap[OwnFlag(req)].update_reason
    /\ prev.heap[OwnFlag(req)].enabled = req.body.enabled
    /\ res.previous_state = res.new_state
    /\ res.success = Bool(TRUE)

\* C5 (unknown flag): an authenticated, well-formed request (metadata
\* absent, null or any map) whose flag_key names no flag of its customer is
\* answered 200 with success:false, previous_state:false, new_state:false
\* and the error naming the flag key, appends exactly one FLAG_NOT_FOUND
\* entry and changes no flag.
C5_UnknownFlag ==
    (/\ req.kind = "webhook" /\ HasConfiguredKey(req) /\ WellFormed(req.body)
     /\ ~NamesOwnFlag(req))
    => /\ res.status = 200
       /\ res.success = Bool(FALSE)
       /\ res.previous_state = Bool(FALSE)
       /\ res.new_state = Bool(FALSE)
       /\ res.error =
             Str("Feature flag '" \o req.body.flag_key.s
                 \o "' not found for customer " \o TenantOf(req))
       /\ AppendedActions = <<"FLAG_NOT_FOUND">>
       /\ heap = prev.heap
       /\ featureFlags = prev.featureFlags

\* C6 (round trip): the response to every request that passed
\* authentication and is well-formed echoes the request's flag_key.
C6_RoundTrip ==
    (req.kind = "webhook" /\ res.status # 401 /\ WellFormed(req.body)) =>
        res.flag_key = req.body.flag_key

\* An unknown flag has been reported under its own name.
C6_Witness ==
    /\ req.kind = "webhook" /\ WellFormed(req.body)
    /\ res.status = 200
    /\ res.success = Bool(FALSE)
    /\ res.flag_key = Str("invalid-flag-xyz")

\* C7 (response shape): a response with success:true carries no error
\* field, a response with success:false carries an error string.
C7_ResponseShape ==
    req.kind # "none" =>
        /\ res.success.t = "boolean"
        /\ res.success = Bool(TRUE) => res.error = Undefined
        /\ res.success = Bool(FALSE) => res.error.t = "string"

\* Both shapes have been sent: a toggle answered after a rejected request.
C7_Witness ==
    /\ clock = 2
    /\ res.success = Bool(TRUE)
    /\ res.error = Undefined
    /\ Len(prev.auditLog) = 1
    /\ prev.auditLog[1].action = "AUTH_FAILED"

(***************************************************************************)
(* Client properties (ClientSpec)                                          *)
(***************************************************************************)
\* A 2xx response whose body has the four required fields with their types
\* and success:false.
BusinessFailure(x) ==
    /\ x.kind = "response" /\ x.status \in 200..299 /\ x.parses
    /\ x.body.success = Bool(FALSE)
    /\ x.body.flag_key.t = "string"
    /\ x.body.previous_state.t = "boolean"
    /\ x.body.new_state.t = "boolean"
    /\ x.body.error.t \in {"undefined", "string"}

\* Attempt i of the call did not throw.
Succeeded(i) == testToggleFlag(config, exchanges[i]).kind = "return"

\* C8 (no retry of business failures): an attempt answered 2xx with a
\* structurally valid success:false body is the last one; the call returns
\* that body, sends nothing more and does not back off.
C8_NoRetryOfBusinessFailure ==
    \A i \in 1..Len(exchanges) :
        BusinessFailure(exchanges[i]) =>
            /\ i = Len(exchanges)
            /\ pc = "returned"
            /\ outcome.kind = "return"
            /\ outcome.data = exchanges[i].body
            /\ Len(sleeps) = i - 1

\* A business failure came back on the second attempt with attempts to spare.
C8_Witness ==
    /\ pc = "returned"
    /\ Len(exchanges) = 2
    /\ BusinessFailure(exchanges[2])
    /\ outcome.data = NotFoundBody
    /\ attempt < config["retryAttempts"]

\* C9 (bounded retry): with retryAttempts = N >= 1 at most N requests are
\* sent; the first attempt that does not throw ends the call with its
\* result; if all N throw, the call throws an error naming N and the
\* message of the last attempt's error.
C9_BoundedRetry ==
    config["retryAttempts"] >= 1 =>
        /\ Len(exchanges) <= config["retryAttempts"]
        /\ \A i \in 1..Len(exchanges) :
              Succeeded(i) =>
                  /\ i = Len(exchanges)
                  /\ pc = "returned"
                  /\ outcome = Returned(exchanges[i].body)
        /\ pc = "returned" => Len(exchanges) >= 1 /\ Succeeded(Len(exchanges))
        /\ pc = "thrown" =>
              /\ Len(exchanges) = config["retryAttempts"]
              /\ \A i \in 1..Len(exchanges) : ~Succeeded(i)
              /\ outcome =
                    Thrown("Failed after " \o ToString(config["retryAttempts"])
                           \o " attempts: "
                           \o testToggleFlag(config, exchanges[Len(exchanges)]).message)

\* Two failures, then success on the third of three attempts.
C9_Witness ==
    /\ config["retryAttempts"] = 3
    /\ Len(exchanges) = 3
    /\ exchanges[1] = Aborted
    /\ exchanges[2] = Aborted
    /\ pc = "returned"
    /\ outcome = Returned(ToggledBody)

\* min(1000 * 2^(k-1), 10000)
ScheduledDelay(k) == IF 1000 * 2 ^ (k - 1) < 10000 THEN 1000 * 2 ^ (k - 1) ELSE 10000

\* C10 (backoff schedule): the sleep after failed attempt k < retryAttempts
\* is min(1000 * 2^(k-1), 10000) ms; delays never decrease and never
\* exceed 10000 ms; no sleep follows the final attempt; two failures and a
\* success accumulate 1000 + 2000 ms.
C10_BackoffSchedule ==
    /\ \A k \in 1..Len(sleeps) :
          /\ sleeps[k] = ScheduledDelay(k)
          /\ sleeps[k] <= 10000
          /\ k > 1 => sleeps[k - 1] <= sleeps[k]
          /\ k < config["retryAttempts"]
          /\ k < Len(exchanges) \/ (k = Len(exchanges) /\ pc = "attempt")
    /\ pc = "backoff" =>
          /\ attempt < config["retryAttempts"]
          /\ delay = ScheduledDelay(attempt)
          /\ Len(sleeps) = attempt - 1
    /\ pc \in {"returned", "thrown"} /\ Len(exchanges) >= 1 =>
          Len(sleeps) = Len(exchanges) - 1
    /\ pc = "returned" /\ Len(exchanges) = 3 => sleeps = <<1000, 2000>>

\* The cap has been applied: the fifth backoff of a call.
C10_Witness ==
    /\ Len(sleeps) >= 5
    /\ sleeps[4] = 8000
    /\ sleeps[5] = 10000

(***************************************************************************)
(* Properties of a single call (CallSpec)                                  *)
(***************************************************************************)
\* The response of the call in flight has a status outside 200..299.
NonSuccessStatus(x) == x.kind = "response" /\ ~(x.status \in 200..299)

TimeoutMessage == "Request timeout after " \o ToString(config["timeout"]) \o "ms"

\* C11 (calls never hang): a call to testToggleFlag has settled once the
\* configured timeout has passed; a call whose response was not complete by
\* then failed with "Request timeout after <timeout>ms", and that error is
\* not the one raised for a non-2xx status.
C11_NeverHangs ==
    call.phase # "none" =>
        /\ call.elapsed > config["timeout"] => call.phase = "settled"
        /\ (call.phase = "settled" /\ call.x = Aborted) =>
              call.result = Thrown(TimeoutMessage)
        /\ (call.phase = "settled" /\ NonSuccessStatus(call.x)) =>
              call.result # Thrown(TimeoutMessage)

\* C12 (transport errors): for a response with a non-2xx status the call
\* throws an error with the status code and the body text, and returns no
\* value, whatever the body holds.
C12_TransportErrors ==
    NonSuccessStatus(call.x) =>
        /\ call.result.kind # "return"
        /\ call.phase = "settled" =>
              call.result =
                  Thrown("HTTP " \o ToString(call.x.status) \o ": " \o call.x.text)

\* A 404 whose body is a well-formed success answer has been thrown.
C12_Witness ==
    /\ call.phase = "settled"
    /\ call.x.status = 404
    /\ call.x.body = ToggledBody
    /\ call.result.kind = "throw"

\* The four required fields are there with their types.
WellTyped(b) ==
    /\ b # Null
    /\ b.success.t = "boolean"
    /\ b.flag_key.t = "string"
    /\ b.previous_state.t = "boolean"
    /\ b.new_state.t = "boolean"

RECURSIVE CommaList(_)
CommaList(names) ==
    IF Len(names) = 1 THEN names[1]
    ELSE names[1] \o ", " \o CommaList(Tail(names))

\* The messages of the errors named 'Invalid response'.
InvalidResponseMessages ==
    {"Invalid response: \"" \o f \o "\" must be a boolean" :
        f \in {"success", "previous_state", "new_state"}}
    \cup {"Invalid response: \"" \o f \o "\" must be a string" :
            f \in {"flag_key", "error"}}
    \cup {"Invalid response: missing required fields: "
            \o CommaList(SelectSeq(<<"success", "flag_key", "previous_state", "new_state">>,
                                   LAMBDA f : f \in S)) :
            S \in SUBSET {"success", "flag_key", "previous_state", "new_state"} \ {{}}}

\* C13 (schema validation): for a 2xx response whose body parses, the call
\* returns a value only if the four required fields are present with their
\* types and throws an 'Invalid response' error otherwise; a well-typed
\* body with success:false is returned, not thrown.
C13_SchemaValidation ==
    (/\ call.phase = "settled" /\ call.x.kind = "response"
     /\ call.x.status \in 200..299 /\ call.x.parses)
    => /\ call.result.kind = "return" =>
             WellTyped(call.x.body) /\ call.result.data = call.x.body
       /\ call.result.kind # "return" =>
             /\ call.result.kind = "throw"
             /\ call.result.message \in InvalidResponseMessages
       /\ (/\ WellTyped(call.x.body)
           /\ call.x.body.success = Bool(FALSE)
           /\ call.x.body.error.t \in {"undefined", "string"})
          => call.result = Returned(call.x.body)

\* C14 (no retry of rejections): an attempt the provider answered with
\* HTTP 401 or HTTP 400 is the last request testToggleFlagWithRetry sends.
C14_NoRetryOfRejections ==
    \A i \in 1..Len(exchanges) :
        (exchanges[i].kind = "response" /\ exchanges[i].status \in {400, 401})
            => i = Len(exchanges)

(***************************************************************************)
(* Properties of the audit log (Spec)                                      *)
(***************************************************************************)
\* C15 (auth failures audited): a request whose Authorization header is
\* absent or malformed, and a request whose header is well-formed but whose
\* token is unknown, each append exactly one AUTH_FAILED entry.
C15_AuthFailuresAudited ==
    (req.kind = "webhook" /\ ~HasConfiguredKey(req)) =>
        AppendedActions = <<"AUTH_FAILED">>

\* needle occurs in hay as a run of consecutive characters.
Contains(hay, needle) ==
    \E k \in 0..(Len(hay) - Len(needle)) :
        SubSeq(hay, k + 1, k + Len(needle)) = needle

\* C16 (secret obfuscation): no audit entry written for a request holds the
\* complete bearer token the request presented, whatever its length; an
\* AUTH_FAILED entry holds a proper prefix of it.
C16_SecretObfuscation ==
    (req.kind = "webhook" /\ StartsWith(req.authorization, BearerPrefix)) =>
        LET token == SubstringFrom(req.authorization, 7)
        IN  \A i \in 1..Len(Appended) :
                /\ ~Contains(Appended[i].api_key, token)
                /\ Appended[i].action = "AUTH_FAILED" =>
                      \E n \in 0..(Len(token) - 1) :
                          Appended[i].api_key = SubSeq(token, 1, n) \o <<".", ".", ".">>

\* C17 (one entry per request): every request to POST /webhook/pathcanary,
\* whatever its outcome, appends exactly one entry to the audit log.
C17_OneEntryPerRequest ==
    req.kind # "none" => Len(Appended) = 1

\* C18 (entry shape): every audit entry has a timestamp, one of the four
\* actions, the tenant id and a request id.
C18_AuditEntryShape ==
    \A i \in 1..Len(auditLog) :
        /\ auditLog[i].timestamp.t = "string"
        /\ auditLog[i].action \in
              {"FLAG_TOGGLED", "FLAG_NOT_FOUND", "AUTH_FAILED", "WEBHOOK_ERROR"}
        /\ auditLog[i].customer_id.t = "string"
        /\ auditLog[i].request_id.t = "string"

(***************************************************************************)
(* Properties of a long-running provider (AuditSpec)                       *)
(***************************************************************************)
\* C19 (bounded append-only log): the audit log never holds more than 1000
\* entries; a request adds its entries at the end; entries are dropped only
\* from the front and only as many as exceed 1000; the entries kept are
\* unchanged and in their order.
C19_BoundedAppendOnly ==
    [][LET n == Len(auditLog)
           m == Len(auditLog')
       IN  /\ n <= 1000
           /\ m <= 1000
           /\ \E k \in 0..2 :
                 LET d == IF n + k > 1000 THEN n + k - 1000 ELSE 0
                 IN  /\ m = n + k - d
                     /\ \A i \in 1..(n - d) : auditLog'[i] = auditLog[i + d]
                     /\ \A i \in (n - d + 1)..m :
                           auditLog'[i].timestamp = Timestamp(clock')
      ]_vars

\* The log is full, its oldest entry has been dropped and the newest entry
\* is that of the last request.
C19_Witness ==
    /\ clock > Backlog
    /\ Len(auditLog) = 1000
    /\ auditLog[1].timestamp # Timestamp(1)
    /\ auditLog[1000].timestamp = Timestamp(clock)
    /\ auditLog[1000].action = "FLAG_TOGGLED"

\* The limit parameter is a decimal integer, possibly negative.
IsNumeral(q) ==
    /\ q.present
    /\ LET digits == IF q.chars # <<>> /\ Head(q.chars) = "-"
                     THEN Tail(q.chars) ELSE q.chars
       IN  /\ digits # <<>>
           /\ \A i \in 1..Len(digits) : digits[i] \in DOMAIN Digits

\* C20 (audit log listing): GET /audit-log?limit=N with a valid key returns
\* only entries of the authenticated tenant, never more than N of them for
\* a supplied N and never more than 50 without one; they are the tenant's
\* most recent entries, most recent first, and count is their number.
C20_AuditLogListing ==
    [][(listing' # listing /\ listing'.status = 200 /\ HasConfiguredKey(listing'))
       => LET tenant == Str(TenantOf(listing'))
              own == SelectSeq(auditLog, LAMBDA e : e.customer_id = tenant)
              logs == listing'.logs
          IN  /\ \A i \in 1..Len(logs) : logs[i].customer_id = tenant
              /\ IsNumeral(listing'.limit) =>
                    Len(logs) <= parseInt(listing'.limit).n
              /\ ~listing'.limit.present => Len(logs) <= 50
              /\ Len(logs) <= Len(own)
              /\ \A i \in 1..Len(logs) : logs[i] = own[Len(own) - i + 1]
              /\ listing'.count = Len(logs)
      ]_vars

(***************************************************************************)
(* Failures, validation order and the flag store (Spec)                    *)
(***************************************************************************)
\* C21 (internal failure): a request carrying a configured key whose
\* processing raises an exception is answered 500 with success:false and a
\* fixed generic message that is not the exception's text, the answer
\* includes the request id, and exactly one WEBHOOK_ERROR entry holding the
\* exception detail is appended.
C21_InternalFailure ==
    (req.kind # "none" /\ HasConfiguredKey(req) /\ res.status = 500) =>
        /\ res.success = Bool(FALSE)
        /\ res.error \in {Str("Internal server error. Please contact support."),
                          Str("Internal server error")}
        /\ res.request_id.t = "string" \/ res.provider_metadata.request_id.t = "string"
        /\ Cardinality({i \in 1..Len(Appended) :
                            Appended[i].action = "WEBHOOK_ERROR"}) = 1
        /\ \A i \in 1..Len(Appended) :
              Appended[i].action = "WEBHOOK_ERROR" =>
                  /\ Appended[i].error.t = "string"
                  /\ Appended[i].error # res.error

\* The message of the first check a body fails, in the order flag_key,
\* enabled, incident_id/incident_message, source.
FirstFailure(b) ==
    IF ~NonEmptyString(b.flag_key)
    THEN "Missing required field: flag_key"
    ELSE IF b.enabled.t # "boolean"
    THEN "Missing or invalid required field: enabled (must be boolean)"
    ELSE IF ~NonEmptyString(b.incident_id) \/ ~NonEmptyString(b.incident_message)
    THEN "Missing required fields: incident_id, incident_message"
    ELSE "Invalid source. Expected \"pathcanary\""

\* C22 (validation order): a request with an invalid body is answered 401
\* when it is not authenticated; when it is, it is answered 400 with the
\* error of the first failing check, whether or not its flag exists, and
\* neither a not-found answer nor a FLAG_NOT_FOUND entry is produced.
C22_ValidationOrder ==
    (req.kind = "webhook" /\ ~WellFormed(req.body)) =>
        IF ~HasConfiguredKey(req)
        THEN res.status = 401
        ELSE /\ res.status = 400
             /\ res.error = Str(FirstFailure(req.body))
             /\ \A i \in 1..Len(Appended) : Appended[i].action # "FLAG_NOT_FOUND"

\* C24 (flag set fixed): the (tenant, flag_key) pairs in the store are
\* always the initial ones, and a flag's enabled value changes only in a
\* successful toggle of that tenant's flag of that name.
C24_FlagSetFixed ==
    /\ DOMAIN featureFlags = DOMAIN InitialFeatureFlags
    /\ \A c \in DOMAIN InitialFeatureFlags :
          DOMAIN featureFlags[c] = DOMAIN InitialFeatureFlags[c]
    /\ \A o \in FlagObjects :
          heap[o].enabled # prev.heap[o].enabled =>
              /\ res.success = Bool(TRUE)
              /\ NamesOwnFlag(req)
              /\ OwnFlag(req) = o

\* The FLAG_TOGGLED entries in the log for flag k of tenant c.
Toggles(c, k) ==
    {i \in 1..Len(auditLog) :
        /\ auditLog[i].action = "FLAG_TOGGLED"
        /\ auditLog[i].customer_id = Str(c)
        /\ auditLog[i].flag_key = Str(k)}

Latest(indices) == CHOOSE i \in indices : \A j \in indices : j <= i

\* C29 (audit trail agrees with flag state): a successful toggle appends
\* exactly one FLAG_TOGGLED entry with the states and flag_key of the
\* response and the incident_id of the request; and, while no entry has
\* been evicted, each flag in the store has the new_state of the latest
\* FLAG_TOGGLED entry for its tenant and key, or its initial value if there
\* is none.
C29_AuditAgreesWithState ==
    /\ (req.kind = "webhook" /\ res.success = Bool(TRUE)) =>
          /\ AppendedActions = <<"FLAG_TOGGLED">>
          /\ Appended[1].previous_state = res.previous_state
          /\ Appended[1].new_state = res.new_state
          /\ Appended[1].flag_key = res.flag_key
          /\ Appended[1].incident_id = req.body.incident_id
    /\ Len(auditLog) < AuditLogCapacity =>
          \A c \in DOMAIN featureFlags :
              \A k \in DOMAIN featureFlags[c] :
                  LET obj == featureFlags[c][k].s
                  IN  heap[obj].enabled =
                          IF Toggles(c, k) = {}
                          THEN InitialHeap[obj].enabled
                          ELSE auditLog[Latest(Toggles(c, k))].new_state

\* C30 (state unchanged on internal error): a request answered 500 has
\* changed no flag's enabled, updated_at or update_reason and has appended
\* no FLAG_TOGGLED and no FLAG_NOT_FOUND entry.
C30_UnchangedOnError ==
    (req.kind # "none" /\ res.status = 500) =>
        /\ \A o \in FlagObjects :
              /\ heap[o].enabled = prev.heap[o].enabled
              /\ heap[o].updated_at = prev.heap[o].updated_at
              /\ heap[o].update_reason = prev.heap[o].update_reason
        /\ \A i \in 1..Len(Appended) :
              Appended[i].action \notin {"FLAG_TOGGLED", "FLAG_NOT_FOUND"}


\* ------------------------------------------------------------------------
\* Defaults of the client (CallSpec)

\* C27 (default timeout): a client constructed without a timeout option
\* aborts each request after 5000 ms: a call that has been pending for longer
\* is settled, and an aborted call reports a timeout of 5000 ms; constructed
\* without a retry count it is configured for 3 attempts.
C27_DefaultTimeout ==
    config = Constructor([apiKey |-> TestKey]) =>
        /\ config["retryAttempts"] = 3
        /\ call.elapsed > 5000 => call.phase = "settled"
        /\ (call.phase = "settled" /\ call.x = Aborted) =>
              call.result = Thrown("Request timeout after 5000ms")

\* ------------------------------------------------------------------------
\* Tenant isolation (TenantSpec)

\* The flag keys customer c holds and customer a does not.
OnlyOf(flags, c, a) == DOMAIN flags[c] \ DOMAIN flags[a]

\* C23 (tenant isolation): a webhook request authenticated as customer A
\* leaves the flags of every other customer as they were, and a flag key
\* only another customer holds is reported to A as not found: success:false
\* on the webhook, 404 on GET /flags/:flagKey; GET /flags lists A's flags.
C23_TenantIsolation ==
    /\ (req.kind = "webhook" /\ view.at < clock /\ HasConfiguredKey(req)) =>
          \A c \in DOMAIN prev.featureFlags \ {TenantOf(req)} :
              /\ featureFlags[c] = prev.featureFlags[c]
              /\ \A k \in DOMAIN prev.featureFlags[c] :
                    heap[prev.featureFlags[c][k].s] = prev.heap[prev.featureFlags[c][k].s]
              /\ req.body.flag_key.s \in OnlyOf(prev.featureFlags, c, TenantOf(req)) =>
                    res.success = Bool(FALSE)
    /\ (view.kind = "flag" /\ view.at = clock /\ HasConfiguredKey(view)) =>
          \A c \in DOMAIN featureFlags \ {TenantOf(view)} :
              view.flagKey \in OnlyOf(featureFlags, c, TenantOf(view)) =>
                  view.status = 404
    /\ (view.kind = "flags" /\ view.at = clock /\ HasConfiguredKey(view)) =>
          /\ view.status = 200
          /\ {f.key : f \in view.flags} = DOMAIN featureFlags[TenantOf(view)]

\* ------------------------------------------------------------------------
\* Concurrent callers (NetSpec)

\* The requests for flag k of customer_001 answered success:true, in the
\* order the provider ran them.
Chain(k) ==
    SelectSeq(served,
              LAMBDA e : /\ e.res.success = Bool(TRUE)
                         /\ sent[e.i].body.flag_key = Str(k))

\* C28 (consistent chain under concurrency): whatever the order in which
\* concurrent requests for one flag are handled, the successful responses,
\* taken in that order, each report as previous_state the new_state of the
\* one before (the flag's initial state for the first) and as new_state
\* their request's target, and the flag's state is the new_state of the last.
C28_ConsistentChain ==
    \A k \in DOMAIN InitialFeatureFlags["customer_001"] :
        LET flag == InitialFeatureFlags["customer_001"][k].s
            chain == Chain(k)
        IN  /\ \A n \in 1..Len(chain) :
                  /\ chain[n].res.previous_state =
                        IF n = 1 THEN InitialHeap[flag].enabled
                        ELSE chain[n - 1].res.new_state
                  /\ chain[n].res.new_state = sent[chain[n].i].body.enabled
            /\ heap[flag].enabled =
                  IF chain = <<>> THEN InitialHeap[flag].enabled
                  ELSE chain[Len(chain)].res.new_state

\* Two requests with different targets were in flight together and were
\* handled in the reverse of the order they were sent in, both with success.
C28_Witness ==
    /\ Len(served) = 2
    /\ served[1].i = 2
    /\ served[2].i = 1
    /\ served[1].res.success = Bool(TRUE)
    /\ served[2].res.success = Bool(TRUE)
    /\ served[1].res.new_state # served[2].res.new_state
    /\ sent[1].caller # sent[2].caller

\* The audit entries of a handled request that record its outcome.
OutcomeEntries(e) ==
    SelectSeq(e.entries,
              LAMBDA a : a.action \in {"FLAG_TOGGLED", "FLAG_NOT_FOUND", "WEBHOOK_ERROR"})

\* Every handled request was recorded under the id its header carried, and
\* that id is the one generated when the attempt was sent.
HeaderRecorded ==
    /\ \A i \in 1..Len(sent) :
          \E rand \in RandSamples : sent[i].id = generateRequestIdSdk(sent[i].at, rand)
    /\ \A n \in 1..Len(served) :
          /\ OutcomeEntries(served[n]) # <<>>
          /\ \A m \in 1..Len(OutcomeEntries(served[n])) :
                OutcomeEntries(served[n])[m].request_id = Str(sent[served[n].i].id)

SuiteOnOwnFlag ==
    /\ HasConfiguredKey(suite)
    /\ suite.flagKey \in DOMAIN InitialFeatureFlags[TenantOf(suite)]

\* C26 (the suite against the provider): runIntegrationTest, run with a
\* valid key for an existing flag of that customer against the provider,
\* whose answers arrive within the response-time threshold, passes every
\* test and returns success: true.
C26_SuitePasses ==
    (/\ suite.step = "returned"
     /\ SuiteOnOwnFlag
     /\ \A i \in 1..Len(suite.results) :
           suite.results[i].duration <= ResponseTimeThreshold) =>
        /\ suite.success
        /\ Len(suite.results) = 3
        /\ \A i \in 1..Len(suite.results) : suite.results[i].passed

====
